---- MODULE Spec2Model ----
(***************************************************************************)
(* The Matrix bot component (homeassistant/components/matrix/__init__.py). *)
(*                                                                         *)
(* Specifications over one set of variables:                               *)
(*   Spec       setup of the bot: token load, login, listener and hooks    *)
(*   SpecRooms  the room resolver under sequential resolve-or-join calls   *)
(*   SpecConc   two workers inside _join_or_get_room, steps interleaved    *)
(*   SpecMsg    the message handler over a configured command table        *)
(*   SpecListen the startup pass as a whole, then a message delivered to   *)
(*              the listeners of a room                                    *)
(*   SpecSend   a send_message service call as a whole                     *)
(*   SpecBot    the whole bot under the host's start and stop events       *)
(*   SpecTables the whole bot over every command list                      *)
(***************************************************************************)
EXTENDS Naturals, Sequences, FiniteSets, TLC

(***************************************************************************)
(* Bounds of the model.                                                    *)
(***************************************************************************)
\* process starts (runs of async_setup_entry) in one behaviour
MaxProcesses == 2
\* calls of init_client on the kept bot after setup
MaxInitCalls == 1
\* room refs in the configured listening-room list
MaxListen == 2
\* targets of the send request
MaxTargets == 2
\* commands in the configured command list
MaxCommands == 2
\* characters in a message body
MaxBody == 4

(***************************************************************************)
(* Setup and login: state.                                                 *)
(***************************************************************************)
VARIABLES
    disk,            \* the session file: identity -> token (a partial function)
    diskAtBoot,      \* history: the file as it was when the process started
    auth_tokens,     \* self._auth_tokens
    loaded,          \* history: self._auth_tokens as __init__ loaded it
    loginClient,     \* the client local to _login / _login_by_password
    client,          \* self._client
    pc,              \* position of the setup thread
    setupResult,     \* what async_setup_entry gave its caller
    botKept,         \* hass.data[DOMAIN]["BOT"] is set
    serviceRegistered, \* the send_message service is registered
    listenerThreads, \* calls of start_listener_thread
    stopHooks,       \* listen_once(EVENT_HOMEASSISTANT_STOP) registrations
    startHooks,      \* listen_once(EVENT_HOMEASSISTANT_START) registrations
    tokenResult,     \* history: outcome of _login_by_token in this process
    passwordResult,  \* history: outcome of login_with_password
    saveResult,      \* history: outcome of save_json
    tokenLogins,     \* history: token login attempts in this process
    passwordLogins,  \* history: password login attempts in this process
    storeWrites,     \* history: writes of the session file in this process
    issued,          \* tokens the homeserver has issued so far
    processes,       \* process starts so far
    initCalls        \* init_client calls on the kept bot after setup

loginVars ==
    <<disk, diskAtBoot, auth_tokens, loaded, loginClient, client, pc,
      setupResult, botKept, serviceRegistered, listenerThreads, stopHooks,
      startHooks, tokenResult, passwordResult, saveResult, tokenLogins,
      passwordLogins, storeWrites, issued, processes, initCalls>>

(***************************************************************************)
(* Room resolver: state.                                                   *)
(***************************************************************************)
VARIABLES
    listening_rooms,     \* self._listening_rooms: the configured room refs
    rooms,               \* keys of self._client.get_rooms(), insertion order
    roomGen,             \* room ID -> which Room object the dict holds
    roomAliases,         \* room ID -> aliases attribute of that Room object
    roomListeners,       \* room ID -> room_id bound by each of its listeners
    aliases_fetched_for, \* self._aliases_fetched_for
    fetches,             \* history: room ID -> calls of update_aliases
    lastResolve,         \* history: how the last _join_or_get_room call ended
    joinIdx,             \* _join_rooms: listening rooms handled so far
    sendLeft             \* _send_message: targets of the request still to do

roomVars ==
    <<listening_rooms, rooms, roomGen, roomAliases, roomListeners,
      aliases_fetched_for, fetches, lastResolve, joinIdx, sendLeft>>

(***************************************************************************)
(* Two workers inside _join_or_get_room: state.                            *)
(***************************************************************************)
VARIABLES
    wpc,      \* worker -> its position
    wkind,    \* worker -> "join_rooms" (startup pass) or "send_message"
    wref,     \* worker -> room_id_or_alias of its call
    wi,       \* worker -> position of its iterator over rooms.values()
    wsize,    \* worker -> size of the rooms dict when the iterator was made
    wheld,    \* worker -> the Room object its variable `room` holds
    wjoin,    \* history: worker -> outcome of its join request, if any
    overlap   \* history: a call started while the other was under way

concVars == <<wpc, wkind, wref, wi, wsize, wheld, wjoin, overlap>>

(***************************************************************************)
(* Command table and message handler: state.                               *)
(***************************************************************************)
VARIABLES
    inbox,               \* a message posted in a room, not yet delivered
    commands,            \* the configured command list, as __init__ left it
    word_commands,       \* self._word_commands: room -> word -> command
    expression_commands, \* self._expression_commands: room -> commands
    handled,             \* the message _handle_room_message was called with
    fired,               \* the events it fired on the bus, in order
    raised               \* it raised instead of returning

msgVars == <<inbox, commands, word_commands, expression_commands, handled,
             fired, raised>>

(***************************************************************************)
(* Host signals, the startup pass and the send service as whole calls:     *)
(* state.                                                                  *)
(***************************************************************************)
VARIABLES
    hostState,      \* "starting", "started" (start event fired) or "stopped"
    pendingStartup, \* handle_startup callbacks the start event scheduled
    pendingStop,    \* stop_client callbacks the stop event scheduled
    joinPasses,     \* history: runs of _join_rooms
    teardowns,      \* history: calls of stop_listener_thread
    joinLog,        \* history: how each listening room of the pass ended
    sendQueue,      \* the send_message service call waiting: its targets
    sendLog,        \* history: how each target of the call ended
    received        \* room ID -> texts the homeserver accepted for the room

hostVars == <<hostState, pendingStartup, pendingStop, joinPasses, teardowns,
              joinLog, sendQueue, sendLog, received>>

vars == <<loginVars, roomVars, concVars, msgVars, hostVars>>

\* the configured identity (self._mx_id) and another identity of the file
MxId == "@bot:hs"
Identities == {MxId, "@other:hs"}

\* tokens found in the session file before the first start
StoredTokens == {1, 2}

\* the token the homeserver issues with its n-th successful password login
IssuedToken(n) == 10 + n

\* self._client = None
None == [kind |-> "none"]

\* a MatrixClient logged in by `how`, holding `token`
MatrixClient(how, token) == [kind |-> "client", how |-> how, token |-> token]

EmptyMap == [i \in {} |-> 0]

\* the mappings the session file may hold
TokenMaps == UNION {[S -> StoredTokens] : S \in SUBSET Identities}

\* dict assignment m[k] = v
DictSet(m, k, v) == [i \in (DOMAIN m) \cup {k} |-> IF i = k THEN v ELSE m[i]]

\* load_json(path): the mapping in the file, or HomeAssistantError raised
load_json(file, loadOk) ==
    IF loadOk THEN [raised |-> FALSE, data |-> file]
    ELSE [raised |-> TRUE, data |-> EmptyMap]

\* save_json(path, data): the file rewritten as a whole, or an error raised
\* with the file as it was
save_json(file, data, saveOk) ==
    IF saveOk THEN [raised |-> FALSE, file |-> data]
    ELSE [raised |-> TRUE, file |-> file]

\* _get_auth_tokens: the file's mapping, or {} when load_json raises
GetAuthTokens(loadOk) ==
    LET read == load_json(disk, loadOk)
    IN  IF read.raised THEN EmptyMap ELSE read.data

ResetProcess ==
    /\ auth_tokens' = EmptyMap
    /\ loaded' = EmptyMap
    /\ loginClient' = None
    /\ client' = None
    /\ pc' = "boot"
    /\ setupResult' = "pending"
    /\ botKept' = FALSE
    /\ serviceRegistered' = FALSE
    /\ listenerThreads' = 0
    /\ stopHooks' = 0
    /\ startHooks' = 0
    /\ tokenResult' = "none"
    /\ passwordResult' = "none"
    /\ saveResult' = "none"
    /\ tokenLogins' = 0
    /\ passwordLogins' = 0
    /\ storeWrites' = 0
    /\ initCalls' = 0

InitLogin ==
    /\ disk \in TokenMaps
    /\ diskAtBoot = disk
    /\ auth_tokens = EmptyMap
    /\ loaded = EmptyMap
    /\ loginClient = None
    /\ client = None
    /\ pc = "boot"
    /\ setupResult = "pending"
    /\ botKept = FALSE
    /\ serviceRegistered = FALSE
    /\ listenerThreads = 0
    /\ stopHooks = 0
    /\ startHooks = 0
    /\ tokenResult = "none"
    /\ passwordResult = "none"
    /\ saveResult = "none"
    /\ tokenLogins = 0
    /\ passwordLogins = 0
    /\ storeWrites = 0
    /\ issued = 0
    /\ processes = 1
    /\ initCalls = 0

\* the bot set up on a password login, no token in the session file before
LoggedIn ==
    /\ disk = [i \in {MxId} |-> IssuedToken(1)]
    /\ diskAtBoot = EmptyMap
    /\ auth_tokens = disk
    /\ loaded = EmptyMap
    /\ loginClient = MatrixClient("password", IssuedToken(1))
    /\ client = loginClient
    /\ pc = "running"
    /\ setupResult = "true"
    /\ botKept = TRUE
    /\ serviceRegistered = TRUE
    /\ listenerThreads = 1
    /\ stopHooks = 1
    /\ startHooks = 1
    /\ tokenResult = "none"
    /\ passwordResult = "ok"
    /\ saveResult = "ok"
    /\ tokenLogins = 0
    /\ passwordLogins = 1
    /\ storeWrites = 1
    /\ issued = 1
    /\ processes = 1
    /\ initCalls = 0

(***************************************************************************)
(* The command list of the configuration and the tables __init__ builds of *)
(* it.  A string is a sequence of characters.                              *)
(***************************************************************************)

\* a compiled expression: the literal `lit`, or `lit` followed by `$`
Pattern(lit, full) == [lit |-> lit, full |-> full]

\* command[CONF_EXPRESSION].match(body): the match is anchored at the start
ReMatch(pattern, body) ==
    /\ Len(pattern.lit) <= Len(body)
    /\ SubSeq(body, 1, Len(pattern.lit)) = pattern.lit
    /\ pattern.full => Len(pattern.lit) = Len(body)

\* entries of the configured command list (COMMAND_SCHEMA): a word or an
\* expression, a name, and rooms, [] when the entry gives none
WordCommand(word, name, scope) ==
    [word |-> word, name |-> name, rooms |-> scope]
ExpressionCommand(pattern, name, scope) ==
    [expression |-> pattern, name |-> name, rooms |-> scope]

IsWordCommand(command) == "word" \in DOMAIN command

CommandPool ==
    { WordCommand(<<"p">>, "ping", <<>>),
      WordCommand(<<"p">>, "pong", <<"!a">>),
      ExpressionCommand(Pattern(<<"!", "p">>, FALSE), "bang", <<>>),
      ExpressionCommand(Pattern(<<>>, FALSE), "any", <<"!a">>) }

CommandConfigs == UNION {[1..n -> CommandPool] : n \in 0..MaxCommands}

\* str.split(): the runs of characters between whitespace, none empty
RECURSIVE Split_Whitespace(_)
Split_Whitespace(str) ==
    IF str = <<>> THEN <<>>
    ELSE IF Head(str) \in {" ", "\t"} THEN Split_Whitespace(Tail(str))
    ELSE LET rest == Tail(str)
             more == Split_Whitespace(rest)
         IN  IF rest # <<>> /\ Head(rest) \notin {" ", "\t"}
               THEN <<<<Head(str)>> \o Head(more)>> \o Tail(more)
               ELSE <<<<Head(str)>>>> \o more

\* str.split(" "): the pieces between single spaces, empty ones kept
RECURSIVE Split(_)
Split(str) ==
    IF str = <<>> THEN << <<>> >>
    ELSE LET more == Split(Tail(str))
         IN  IF Head(str) = " "
               THEN << <<>> >> \o more
               ELSE <<<<Head(str)>> \o Head(more)>> \o Tail(more)

\* CommandRooms with the listening rooms given to every command
CommandRooms_Listening(command, listening) == listening

\* the rooms a command is indexed under: its own, or the listening rooms
CommandRooms(command, listening) ==
    IF command.rooms = <<>> THEN listening ELSE command.rooms

\* AddWordCommand with the word kept for the command that has it already
RECURSIVE AddWordCommand_FirstWins(_, _, _, _)
AddWordCommand_FirstWins(table, command, scope, j) ==
    IF j > Len(scope) THEN table
    ELSE LET room_id == scope[j]
             words == IF room_id \in DOMAIN table THEN table[room_id]
                      ELSE [w \in {} |-> command]
             words2 == [w \in (DOMAIN words) \cup {command.word} |->
                          IF w \in DOMAIN words THEN words[w] ELSE command]
             table2 == [r \in (DOMAIN table) \cup {room_id} |->
                          IF r = room_id THEN words2 ELSE table[r]]
         IN  AddWordCommand_FirstWins(table2, command, scope, j + 1)

\* the loop of lines 177-180 from room j on
RECURSIVE AddWordCommand(_, _, _, _)
AddWordCommand(table, command, scope, j) ==
    IF j > Len(scope) THEN table
    ELSE LET room_id == scope[j]
             words == IF room_id \in DOMAIN table THEN table[room_id]
                      ELSE [w \in {} |-> command]
             words2 == [w \in (DOMAIN words) \cup {command.word} |->
                          IF w = command.word THEN command ELSE words[w]]
             table2 == [r \in (DOMAIN table) \cup {room_id} |->
                          IF r = room_id THEN words2 ELSE table[r]]
         IN  AddWordCommand(table2, command, scope, j + 1)

\* the loop of lines 182-185 from room j on
RECURSIVE AddExpressionCommand(_, _, _, _)
AddExpressionCommand(table, command, scope, j) ==
    IF j > Len(scope) THEN table
    ELSE LET room_id == scope[j]
             list == IF room_id \in DOMAIN table THEN table[room_id] ELSE <<>>
             table2 == [r \in (DOMAIN table) \cup {room_id} |->
                          IF r = room_id THEN Append(list, command)
                          ELSE table[r]]
         IN  AddExpressionCommand(table2, command, scope, j + 1)

\* a command of the list after line 174 gave it its rooms
Scoped(command, listening) ==
    [command EXCEPT !.rooms = CommandRooms(command, listening)]

\* the loop of lines 172-185 from command i on: both tables
RECURSIVE BuildTables(_, _, _, _)
BuildTables(config, listening, i, tables) ==
    IF i > Len(config) THEN tables
    ELSE LET command == Scoped(config[i], listening)
         IN  BuildTables(config, listening, i + 1,
               IF IsWordCommand(command)
                 THEN [tables EXCEPT !.word =
                         AddWordCommand(@, command, command.rooms, 1)]
                 ELSE [tables EXCEPT !.expression =
                         AddExpressionCommand(@, command, command.rooms, 1)])

EmptyTables == [word |-> <<>>, expression |-> <<>>]

(***************************************************************************)
(* Setup and login: actions.                                               *)
(***************************************************************************)

\* async_setup_entry builds the bot: __init__ loads the stored tokens, gives
\* each command without rooms the listening rooms and builds both tables
Construct ==
    /\ pc = "boot"
    /\ \E loadOk \in BOOLEAN :
         /\ auth_tokens' = GetAuthTokens(loadOk)
         /\ loaded' = GetAuthTokens(loadOk)
    /\ commands' = [i \in DOMAIN commands |->
                       Scoped(commands[i], listening_rooms)]
    /\ word_commands' =
         BuildTables(commands, listening_rooms, 1, EmptyTables).word
    /\ expression_commands' =
         BuildTables(commands, listening_rooms, 1, EmptyTables).expression
    /\ client' = None
    /\ pc' = "constructed"
    /\ UNCHANGED <<disk, diskAtBoot, loginClient, setupResult, botKept,
                   serviceRegistered, listenerThreads, stopHooks, startHooks,
                   tokenResult, passwordResult, saveResult, tokenLogins,
                   passwordLogins, storeWrites, issued, processes, initCalls>>
    /\ UNCHANGED <<inbox, handled, fired, raised>>
    /\ UNCHANGED <<roomVars, concVars, hostVars>>

\* InitClient without the test of self._client (lines 191-193)
InitClient_NoGuard ==
    /\ pc \in {"constructed", "running"}
    /\ pc = "running" => initCalls < MaxInitCalls
    /\ initCalls' = IF pc = "running" THEN initCalls + 1 ELSE initCalls
    /\ pc' = IF MxId \in DOMAIN auth_tokens
               THEN "login_by_token" ELSE "login_by_password"
    /\ loginClient' = None
    /\ UNCHANGED <<disk, diskAtBoot, auth_tokens, loaded, client, setupResult,
                   botKept, serviceRegistered, listenerThreads, stopHooks,
                   startHooks, tokenResult, passwordResult, saveResult,
                   tokenLogins, passwordLogins, storeWrites, issued, processes>>
    /\ UNCHANGED <<roomVars, concVars, msgVars, hostVars>>

\* init_client up to the call of _login, and _login up to its first attempt
InitClient ==
    /\ pc \in {"constructed", "running"}
    /\ pc = "running" => initCalls < MaxInitCalls
    /\ initCalls' = IF pc = "running" THEN initCalls + 1 ELSE initCalls
    /\ IF client # None
         THEN pc' = pc
         ELSE pc' = IF MxId \in DOMAIN auth_tokens
                      THEN "login_by_token" ELSE "login_by_password"
    /\ loginClient' = IF client # None THEN loginClient ELSE None
    /\ UNCHANGED <<disk, diskAtBoot, auth_tokens, loaded, client, setupResult,
                   botKept, serviceRegistered, listenerThreads, stopHooks,
                   startHooks, tokenResult, passwordResult, saveResult,
                   tokenLogins, passwordLogins, storeWrites, issued, processes>>
    /\ UNCHANGED <<roomVars, concVars, msgVars, hostVars>>

\* LoginByToken with the client of a successful token login dropped
LoginByToken_Fallthrough ==
    /\ pc = "login_by_token"
    /\ tokenLogins' = tokenLogins + 1
    /\ \E ok \in BOOLEAN :
         /\ loginClient' = None
         /\ tokenResult' = IF ok THEN "ok" ELSE "rejected"
         /\ pc' = "login_by_password"
    /\ UNCHANGED <<disk, diskAtBoot, auth_tokens, loaded, client, setupResult,
                   botKept, serviceRegistered, listenerThreads, stopHooks,
                   startHooks, passwordResult, saveResult, passwordLogins,
                   storeWrites, issued, processes, initCalls>>
    /\ UNCHANGED <<roomVars, concVars, msgVars, hostVars>>

\* _login_by_token: the homeserver accepts the stored token or rejects it
LoginByToken ==
    /\ pc = "login_by_token"
    /\ tokenLogins' = tokenLogins + 1
    /\ \E ok \in BOOLEAN :
         IF ok
           THEN /\ loginClient' = MatrixClient("token", auth_tokens[MxId])
                /\ tokenResult' = "ok"
                /\ pc' = "logged_in"
           ELSE /\ loginClient' = None
                /\ tokenResult' = "rejected"
                /\ pc' = "login_by_password"
    /\ UNCHANGED <<disk, diskAtBoot, auth_tokens, loaded, client, setupResult,
                   botKept, serviceRegistered, listenerThreads, stopHooks,
                   startHooks, passwordResult, saveResult, passwordLogins,
                   storeWrites, issued, processes, initCalls>>
    /\ UNCHANGED <<roomVars, concVars, msgVars, hostVars>>

\* LoginByPassword with the rejection logged and not re-raised
LoginByPassword_NoRaise ==
    /\ pc = "login_by_password"
    /\ passwordLogins' = passwordLogins + 1
    /\ \E ok \in BOOLEAN :
         IF ok
           THEN /\ issued' = issued + 1
                /\ loginClient' = MatrixClient("password", IssuedToken(issued + 1))
                /\ passwordResult' = "ok"
                /\ pc' = "store_auth_token"
                /\ setupResult' = setupResult
           ELSE /\ issued' = issued
                /\ loginClient' = MatrixClient("password", 0)
                /\ passwordResult' = "rejected"
                /\ pc' = "logged_in"
                /\ setupResult' = setupResult
    /\ UNCHANGED <<disk, diskAtBoot, auth_tokens, loaded, client, botKept,
                   serviceRegistered, listenerThreads, stopHooks, startHooks,
                   tokenResult, saveResult, tokenLogins, storeWrites,
                   processes, initCalls>>
    /\ UNCHANGED <<roomVars, concVars, msgVars, hostVars>>

\* _login_by_password up to _store_auth_token; a rejection is re-raised by
\* _login, leaves init_client and is caught by async_setup_entry
LoginByPassword ==
    /\ pc = "login_by_password"
    /\ passwordLogins' = passwordLogins + 1
    /\ \E ok \in BOOLEAN :
         IF ok
           THEN /\ issued' = issued + 1
                /\ loginClient' = MatrixClient("password", IssuedToken(issued + 1))
                /\ passwordResult' = "ok"
                /\ pc' = "store_auth_token"
                /\ setupResult' = setupResult
           ELSE /\ issued' = issued
                /\ loginClient' = None
                /\ passwordResult' = "rejected"
                /\ pc' = "aborted"
                /\ setupResult' = IF botKept THEN setupResult ELSE "false"
    /\ UNCHANGED <<disk, diskAtBoot, auth_tokens, loaded, client, botKept,
                   serviceRegistered, listenerThreads, stopHooks, startHooks,
                   tokenResult, saveResult, tokenLogins, storeWrites,
                   processes, initCalls>>
    /\ UNCHANGED <<roomVars, concVars, msgVars, hostVars>>

\* _store_auth_token: the token enters the mapping, save_json rewrites the
\* file; an error of save_json is caught nowhere on the way out of setup
StoreAuthToken ==
    /\ pc = "store_auth_token"
    /\ auth_tokens' = DictSet(auth_tokens, MxId, loginClient.token)
    /\ \E saveOk \in BOOLEAN :
         LET saved == save_json(disk, auth_tokens', saveOk)
         IN  /\ disk' = saved.file
             /\ IF ~saved.raised
                  THEN /\ storeWrites' = storeWrites + 1
                       /\ saveResult' = "ok"
                       /\ pc' = "logged_in"
                       /\ setupResult' = setupResult
                  ELSE /\ storeWrites' = storeWrites
                       /\ saveResult' = "failed"
                       /\ pc' = "aborted"
                       /\ setupResult' =
                            IF botKept THEN setupResult ELSE "raised"
    /\ UNCHANGED <<diskAtBoot, loaded, loginClient, client, botKept,
                   serviceRegistered, listenerThreads, stopHooks, startHooks,
                   tokenResult, passwordResult, tokenLogins, passwordLogins,
                   issued, processes, initCalls>>
    /\ UNCHANGED <<roomVars, concVars, msgVars, hostVars>>

\* StartListening with _join_rooms scheduled at once, no start hook
StartListening_JoinAtOnce ==
    /\ pc = "logged_in"
    /\ client' = loginClient
    /\ listenerThreads' = listenerThreads + 1
    /\ stopHooks' = stopHooks + 1
    /\ pendingStartup' = pendingStartup + 1
    /\ pc' = IF botKept THEN "running" ELSE "init_done"
    /\ UNCHANGED <<disk, diskAtBoot, auth_tokens, loaded, loginClient,
                   setupResult, botKept, serviceRegistered, tokenResult,
                   passwordResult, saveResult, tokenLogins, passwordLogins,
                   storeWrites, issued, processes, initCalls, startHooks>>
    /\ UNCHANGED <<hostState, pendingStop, joinPasses, teardowns, joinLog,
                   sendQueue, sendLog, received>>
    /\ UNCHANGED <<roomVars, concVars, msgVars>>

\* init_client after _login returned: keep the client, start the listener
\* thread, register the stop and the start hook
StartListening ==
    /\ pc = "logged_in"
    /\ client' = loginClient
    /\ listenerThreads' = listenerThreads + 1
    /\ stopHooks' = stopHooks + 1
    /\ startHooks' = startHooks + 1
    /\ pc' = IF botKept THEN "running" ELSE "init_done"
    /\ UNCHANGED <<disk, diskAtBoot, auth_tokens, loaded, loginClient,
                   setupResult, botKept, serviceRegistered, tokenResult,
                   passwordResult, saveResult, tokenLogins, passwordLogins,
                   storeWrites, issued, processes, initCalls>>
    /\ UNCHANGED <<roomVars, concVars, msgVars, hostVars>>

\* async_setup_entry after init_client returned
SetupFinish ==
    /\ pc = "init_done"
    /\ botKept' = TRUE
    /\ serviceRegistered' = TRUE
    /\ setupResult' = "true"
    /\ pc' = "running"
    /\ UNCHANGED <<disk, diskAtBoot, auth_tokens, loaded, loginClient, client,
                   listenerThreads, stopHooks, startHooks, tokenResult,
                   passwordResult, saveResult, tokenLogins, passwordLogins,
                   storeWrites, issued, processes, initCalls>>
    /\ UNCHANGED <<roomVars, concVars, msgVars, hostVars>>

\* the process ends and a new one starts: only the session file is kept
Restart ==
    /\ pc \in {"running", "aborted"}
    /\ processes < MaxProcesses
    /\ processes' = processes + 1
    /\ diskAtBoot' = disk
    /\ ResetProcess
    /\ UNCHANGED <<disk, issued>>
    /\ UNCHANGED <<roomVars, concVars, msgVars, hostVars>>

(***************************************************************************)
(* Setup and login: properties.                                            *)
(***************************************************************************)

\* _login has returned or raised
LoginEnded == pc \in {"logged_in", "init_done", "running", "aborted"}

\* C4: when a token is stored for the configured identity, the token login
\* is rejected and the password login then succeeds, the login ends with a
\* client returned and the session file written exactly once, the newly
\* issued token stored under the configured identity.
C4_FallbackAuthenticatesAndStoresOnce ==
    (/\ MxId \in DOMAIN loaded
     /\ tokenResult = "rejected"
     /\ passwordResult = "ok"
     /\ LoginEnded)
    => /\ pc # "aborted"
       /\ loginClient = MatrixClient("password", IssuedToken(issued))
       /\ storeWrites = 1
       /\ MxId \in DOMAIN disk
       /\ disk[MxId] = IssuedToken(issued)

\* C5: when the password login is rejected, with or without a token login
\* before it, the error reaches the caller and setup aborts: no client is
\* kept, no listener thread started, no hook and no service registered,
\* async_setup_entry returns False and the session file is not written.
C5_PasswordRejectionAbortsSetup ==
    passwordResult = "rejected"
    => /\ pc = "aborted"
       /\ setupResult = "false"
       /\ client = None
       /\ ~botKept
       /\ listenerThreads = 0
       /\ stopHooks = 0
       /\ startHooks = 0
       /\ ~serviceRegistered
       /\ storeWrites = 0
       /\ disk = diskAtBoot

\* a rejected password login that followed a rejected token login
C5_Witness ==
    /\ passwordResult = "rejected"
    /\ tokenResult = "rejected"
    /\ setupResult = "false"

\* C6: a successful token login ends authenticated with no password login
\* and no write of the session file; the file is written only after a
\* successful password login; a password login is attempted only when no
\* token was loaded for the identity or the token login was rejected.
C6_TokenLoginLeavesStoreAlone ==
    /\ tokenResult = "ok"
       => /\ pc \in {"logged_in", "init_done", "running"}
          /\ loginClient = MatrixClient("token", loaded[MxId])
          /\ pc # "logged_in" => client = loginClient
          /\ passwordLogins = 0
          /\ storeWrites = 0
          /\ disk = diskAtBoot
    /\ storeWrites > 0 => passwordResult = "ok"
    /\ disk # diskAtBoot => passwordResult = "ok"
    /\ passwordLogins > 0
       => (MxId \notin DOMAIN loaded \/ tokenResult = "rejected")

\* setup completed on a token login
C6_Witness ==
    /\ tokenResult = "ok"
    /\ pc = "running"
    /\ setupResult = "true"
    /\ client # None

\* C7: when the password login succeeds and saving the new token fails, the
\* login still ends authenticated: the client is kept, the listener is
\* started and setup succeeds.
C7_SaveFailureNotFatal ==
    (passwordResult = "ok" /\ saveResult = "failed")
    => /\ pc # "aborted"
       /\ setupResult # "raised"
       /\ (setupResult = "true" => client # None /\ listenerThreads = 1)

\* C17: once init_client has kept a client, no later step of the same bot
\* (a further init_client call included) replaces the client, attempts a
\* login, starts a listener thread or registers a start or a stop hook; a
\* bot never has more than one listener thread and one hook of each kind.
C17_OneClientPerBot ==
    [][ /\ (client # None /\ processes' = processes)
           => /\ client' = client
              /\ tokenLogins' = tokenLogins
              /\ passwordLogins' = passwordLogins
              /\ listenerThreads' = listenerThreads
              /\ stopHooks' = stopHooks
              /\ startHooks' = startHooks
        /\ listenerThreads' <= 1
        /\ stopHooks' <= 1
        /\ startHooks' <= 1 ]_vars

\* init_client was called again on the bot that setup kept
C17_Witness ==
    /\ initCalls = 1
    /\ pc = "running"
    /\ client # None
    /\ listenerThreads = 1
    /\ stopHooks = 1
    /\ startHooks = 1

\* C19: whatever the token load, the logins and the token store did, the
\* session file differs from the file the process found at its start at
\* most in the entry of the configured identity: every other identity of
\* the file is still there with its token, and none was added.
C19_OtherIdentitiesKept ==
    /\ \A id \in (DOMAIN diskAtBoot) \ {MxId} :
         id \in DOMAIN disk /\ disk[id] = diskAtBoot[id]
    /\ (DOMAIN disk) \ {MxId} \subseteq DOMAIN diskAtBoot

(***************************************************************************)
(* Room resolver: the homeserver's rooms, and _join_or_get_room.           *)
(***************************************************************************)

\* canonical room IDs of the homeserver, and its aliases with their rooms
RoomIds == {"!a", "!b"}
AliasRoom == [al \in {"#a", "#a2"} |-> "!a"]

\* what a caller may pass as room_id_or_alias; the homeserver may reject
\* the join of any of them
Refs == RoomIds \cup (DOMAIN AliasRoom)

NoRoom == "none"

\* the room the homeserver resolves a ref to
ServerRoom(ref) ==
    IF ref \in RoomIds THEN ref
    ELSE IF ref \in DOMAIN AliasRoom THEN AliasRoom[ref]
    ELSE NoRoom

\* the aliases the homeserver holds for a room: what update_aliases fetches
ServerAliases(r) == {al \in DOMAIN AliasRoom : AliasRoom[al] = r}

Range(seq) == {seq[i] : i \in DOMAIN seq}

NoResolve == [ref |-> NoRoom, room |-> NoRoom, how |-> "none", sent |-> FALSE]

RECURSIVE ScanRooms_CheckOnFetch(_, _, _)
\* ScanRooms with the alias test moved under the fetch: a room whose aliases
\* were fetched by an earlier call is not tested
ScanRooms_CheckOnFetch(i, ref, st) ==
    IF i > Len(st.rooms)
      THEN [st EXCEPT !.found = NoRoom]
      ELSE LET r == st.rooms[i]
               fetch == r \notin st.fetched
               st2 == IF fetch
                        THEN [st EXCEPT
                                !.aliases[r] = ServerAliases(r),
                                !.fetched = @ \cup {r},
                                !.fetches[r] = @ + 1]
                        ELSE st
           IN  IF fetch /\ ref \in st2.aliases[r]
                 THEN [st2 EXCEPT !.found = r]
                 ELSE ScanRooms_CheckOnFetch(i + 1, ref, st2)

RECURSIVE ScanRooms_NoRemember(_, _, _)
\* ScanRooms with the room never added to _aliases_fetched_for
ScanRooms_NoRemember(i, ref, st) ==
    IF i > Len(st.rooms)
      THEN [st EXCEPT !.found = NoRoom]
      ELSE LET r == st.rooms[i]
               st2 == IF r \notin st.fetched
                        THEN [st EXCEPT
                                !.aliases[r] = ServerAliases(r),
                                !.fetches[r] = @ + 1]
                        ELSE st
           IN  IF ref \in st2.aliases[r]
                 THEN [st2 EXCEPT !.found = r]
                 ELSE ScanRooms_NoRemember(i + 1, ref, st2)

RECURSIVE ScanRooms(_, _, _)
\* the loop over rooms.values(): fetch the aliases of a room not fetched
\* before, remember the room, return it when the ref is one of its aliases
ScanRooms(i, ref, st) ==
    IF i > Len(st.rooms)
      THEN [st EXCEPT !.found = NoRoom]
      ELSE LET r == st.rooms[i]
               st2 == IF r \notin st.fetched
                        THEN [st EXCEPT
                                !.aliases[r] = ServerAliases(r),
                                !.fetched = @ \cup {r},
                                !.fetches[r] = @ + 1]
                        ELSE st
           IN  IF ref \in st2.aliases[r]
                 THEN [st2 EXCEPT !.found = r]
                 ELSE ScanRooms(i + 1, ref, st2)

\* the resolver's state: the client's rooms dict with the Room objects'
\* aliases and listeners, and self._aliases_fetched_for
ResolverState ==
    [rooms |-> rooms, gen |-> roomGen, aliases |-> roomAliases,
     listeners |-> roomListeners, fetched |-> aliases_fetched_for,
     fetches |-> fetches]

\* _join_or_get_room(ref) run as a whole from the resolver state `at`:
\* `how` tells the way it ended, "id" (line 262), "alias" (line 273),
\* "joined" (line 277) or "raised" (join_room rejected); the other fields
\* are the state it leaves
JoinOrGetRoomIn(at, ref, joinOk) ==
    LET start == [found |-> NoRoom, rooms |-> at.rooms,
                  aliases |-> at.aliases, fetched |-> at.fetched,
                  fetches |-> at.fetches]
        scan == ScanRooms(1, ref, start)
        same == [how |-> "id", room |-> ref, rooms |-> at.rooms,
                 gen |-> at.gen, aliases |-> at.aliases,
                 listeners |-> at.listeners,
                 fetched |-> at.fetched, fetches |-> at.fetches]
        scanned == [same EXCEPT !.aliases = scan.aliases,
                                !.fetched = scan.fetched,
                                !.fetches = scan.fetches]
        rid == ServerRoom(ref)
    IN  IF ref \in Range(at.rooms)
          THEN same
        ELSE IF scan.found # NoRoom
          THEN [scanned EXCEPT !.how = "alias", !.room = scan.found]
        ELSE IF rid = NoRoom \/ ~joinOk
          THEN [scanned EXCEPT !.how = "raised", !.room = NoRoom]
        ELSE [scanned EXCEPT
                !.how = "joined", !.room = rid,
                !.rooms = IF rid \in Range(at.rooms) THEN at.rooms
                          ELSE Append(at.rooms, rid),
                !.gen[rid] = @ + 1,
                !.aliases[rid] = {},
                !.listeners[rid] = <<>>]

\* _join_or_get_room(ref) on the bot's resolver state
JoinOrGetRoom(ref, joinOk) == JoinOrGetRoomIn(ResolverState, ref, joinOk)

\* the resolver's state after a call that ended as `res`
Resolved(res) ==
    /\ rooms' = res.rooms
    /\ roomGen' = res.gen
    /\ roomAliases' = res.aliases
    /\ aliases_fetched_for' = res.fetched
    /\ fetches' = res.fetches

\* listening-room lists of the configuration
ListeningConfigs == UNION {[1..n -> Refs] : n \in 0..MaxListen}

\* the rooms the account is in when the client has logged in and synced
InitialRooms ==
    {s \in UNION {[1..n -> RoomIds] : n \in 0..Cardinality(RoomIds)} :
        \A i, j \in DOMAIN s : i # j => s[i] # s[j]}

InitRooms ==
    /\ listening_rooms \in ListeningConfigs
    /\ rooms \in InitialRooms
    /\ roomGen = [r \in RoomIds |-> 0]
    /\ roomAliases = [r \in RoomIds |-> {}]
    /\ roomListeners = [r \in RoomIds |-> <<>>]
    /\ aliases_fetched_for = {}
    /\ fetches = [r \in RoomIds |-> 0]
    /\ lastResolve = NoResolve
    /\ joinIdx = 0
    /\ sendLeft = MaxTargets

\* the resolver before the client exists
IdleRooms ==
    /\ listening_rooms = <<>>
    /\ rooms = <<>>
    /\ roomGen = [r \in RoomIds |-> 0]
    /\ roomAliases = [r \in RoomIds |-> {}]
    /\ roomListeners = [r \in RoomIds |-> <<>>]
    /\ aliases_fetched_for = {}
    /\ fetches = [r \in RoomIds |-> 0]
    /\ lastResolve = NoResolve
    /\ joinIdx = 0
    /\ sendLeft = 0

\* _join_rooms, one listening room: resolve or join it and add the message
\* listener bound to the configured ref; a rejected join is logged
JoinRooms ==
    /\ joinIdx < Len(listening_rooms)
    /\ joinIdx' = joinIdx + 1
    /\ \E joinOk \in BOOLEAN :
         LET room_id == listening_rooms[joinIdx + 1]
             res == JoinOrGetRoom(room_id, joinOk)
         IN  /\ Resolved(res)
             /\ lastResolve' = [ref |-> room_id, room |-> res.room,
                                how |-> res.how, sent |-> FALSE]
             /\ roomListeners' =
                  IF res.how = "raised" THEN res.listeners
                  ELSE [res.listeners EXCEPT ![res.room] = Append(@, room_id)]
    /\ UNCHANGED <<listening_rooms, sendLeft>>
    /\ UNCHANGED <<loginVars, concVars, msgVars, hostVars>>

\* _send_message, one target: resolve or join it and send the text; a
\* rejected join or send is logged
SendMessage ==
    /\ sendLeft > 0
    /\ sendLeft' = sendLeft - 1
    /\ \E target_room \in Refs, rejected \in {"none", "join", "send"} :
         LET res == JoinOrGetRoom(target_room, rejected # "join")
         IN  /\ Resolved(res)
             /\ roomListeners' = res.listeners
             /\ lastResolve' = [ref |-> target_room, room |-> res.room,
                                how |-> res.how,
                                sent |-> res.how # "raised"
                                         /\ rejected # "send"]
    /\ UNCHANGED <<listening_rooms, joinIdx>>
    /\ UNCHANGED <<loginVars, concVars, msgVars, hostVars>>

\* no send_message service call made
NoRequest == [targets |-> <<>>, state |-> "none"]

\* a send_message service call for these targets, not yet handled
Waiting(target_rooms) == [targets |-> target_rooms, state |-> "waiting"]

\* the host before its start event, with the service call `request`
HostBefore(request) ==
    /\ hostState = "starting"
    /\ pendingStartup = 0
    /\ pendingStop = 0
    /\ joinPasses = 0
    /\ teardowns = 0
    /\ joinLog = <<>>
    /\ sendQueue = request
    /\ sendLog = <<>>
    /\ received = [r \in RoomIds |-> 0]

\* the host before its start event, no service call made
IdleHost == HostBefore(NoRequest)

\* the resolver of a new bot, the account in the rooms `joined`
FreshResolver(joined) ==
    /\ rooms = joined
    /\ roomGen = [r \in RoomIds |-> 0]
    /\ roomAliases = [r \in RoomIds |-> {}]
    /\ roomListeners = [r \in RoomIds |-> <<>>]
    /\ aliases_fetched_for = {}
    /\ fetches = [r \in RoomIds |-> 0]
    /\ lastResolve = NoResolve
    /\ joinIdx = 0
    /\ sendLeft = 0

(***************************************************************************)
(* Two workers inside _join_or_get_room, one statement at a time.  The     *)
(* startup pass and the send service each run on a worker of the host's    *)
(* executor; the code takes no lock.                                       *)
(***************************************************************************)

Workers == {"w1", "w2"}

\* a Room object: the room's ID and which object of that room it is
NoObject == [room |-> NoRoom, gen |-> 0]

Other(w) == CHOOSE v \in Workers : v # w

InCall(w) == wpc[w] \in {"scan", "fetch", "join"}

IdleWorkers ==
    /\ wpc = [w \in Workers |-> "idle"]
    /\ wkind = [w \in Workers |-> "none"]
    /\ wref = [w \in Workers |-> NoRoom]
    /\ wi = [w \in Workers |-> 0]
    /\ wsize = [w \in Workers |-> 0]
    /\ wheld = [w \in Workers |-> NoObject]
    /\ wjoin = [w \in Workers |-> "none"]
    /\ overlap = FALSE

\* the caller's loop reaches a room and calls _join_or_get_room, which reads
\* get_rooms() and tests the ref against its keys
WorkerCall(w) ==
    /\ wpc[w] = "idle"
    /\ \E kind \in {"join_rooms", "send_message"}, ref \in Refs :
         /\ kind = "join_rooms" => (w = "w1" /\ ref = listening_rooms[1])
         /\ wkind' = [wkind EXCEPT ![w] = kind]
         /\ wref' = [wref EXCEPT ![w] = ref]
         /\ overlap' = (overlap \/ InCall(Other(w)))
         /\ IF ref \in Range(rooms)
              THEN /\ wheld' = [wheld EXCEPT
                                  ![w] = [room |-> ref, gen |-> roomGen[ref]]]
                   /\ wpc' = [wpc EXCEPT ![w] = "return"]
                   /\ UNCHANGED <<wi, wsize>>
              ELSE /\ wpc' = [wpc EXCEPT ![w] = "scan"]
                   /\ wi' = [wi EXCEPT ![w] = 1]
                   /\ wsize' = [wsize EXCEPT ![w] = Len(rooms)]
                   /\ UNCHANGED wheld
    /\ UNCHANGED <<wjoin, loginVars, roomVars, msgVars, hostVars>>

\* the for statement takes the next room: the iterator raises RuntimeError
\* when the dict changed size, which no handler of the caller catches
WorkerScan(w) ==
    /\ wpc[w] = "scan"
    /\ IF Len(rooms) # wsize[w]
         THEN /\ wpc' = [wpc EXCEPT ![w] = "crashed"]
              /\ UNCHANGED <<wi, wheld>>
         ELSE IF wi[w] > Len(rooms)
           THEN /\ wpc' = [wpc EXCEPT ![w] = "join"]
                /\ UNCHANGED <<wi, wheld>>
           ELSE LET r == rooms[wi[w]]
                    obj == [room |-> r, gen |-> roomGen[r]]
                IN  IF r \notin aliases_fetched_for
                      THEN /\ wpc' = [wpc EXCEPT ![w] = "fetch"]
                           /\ wheld' = [wheld EXCEPT ![w] = obj]
                           /\ UNCHANGED wi
                    ELSE IF wref[w] \in roomAliases[r]
                      THEN /\ wpc' = [wpc EXCEPT ![w] = "return"]
                           /\ wheld' = [wheld EXCEPT ![w] = obj]
                           /\ UNCHANGED wi
                      ELSE /\ wi' = [wi EXCEPT ![w] = @ + 1]
                           /\ UNCHANGED <<wpc, wheld>>
    /\ UNCHANGED <<msgVars, hostVars>>
    /\ UNCHANGED <<wkind, wref, wsize, wjoin, overlap, loginVars, roomVars>>

\* room.update_aliases() on the held object, the room remembered as
\* fetched, the ref tested against the object's aliases
WorkerFetch(w) ==
    /\ wpc[w] = "fetch"
    /\ LET r == wheld[w].room
       IN  /\ roomAliases' =
                IF roomGen[r] = wheld[w].gen
                  THEN [roomAliases EXCEPT ![r] = ServerAliases(r)]
                  ELSE roomAliases
           /\ fetches' = [fetches EXCEPT ![r] = @ + 1]
           /\ aliases_fetched_for' = aliases_fetched_for \cup {r}
           /\ IF wref[w] \in ServerAliases(r)
                THEN /\ wpc' = [wpc EXCEPT ![w] = "return"]
                     /\ UNCHANGED wi
                ELSE /\ wpc' = [wpc EXCEPT ![w] = "scan"]
                     /\ wi' = [wi EXCEPT ![w] = @ + 1]
    /\ UNCHANGED <<wkind, wref, wsize, wheld, wjoin, overlap, loginVars, msgVars,
                   hostVars,
                   listening_rooms, rooms, roomGen, roomListeners,
                   lastResolve, joinIdx, sendLeft>>

\* self._client.join_room(ref): the request, and on success a new Room
\* object under the room's ID in the rooms dict; a rejection is caught and
\* logged by the caller
WorkerJoin(w) ==
    /\ wpc[w] = "join"
    /\ \E joinOk \in BOOLEAN :
         LET rid == ServerRoom(wref[w])
         IN  IF rid = NoRoom \/ ~joinOk
               THEN /\ wjoin' = [wjoin EXCEPT ![w] = "rejected"]
                    /\ wpc' = [wpc EXCEPT ![w] = "done"]
                    /\ lastResolve' = [ref |-> wref[w], room |-> NoRoom,
                                       how |-> "raised", sent |-> FALSE]
                    /\ UNCHANGED <<wheld, rooms, roomGen, roomAliases,
                                   roomListeners>>
               ELSE /\ wjoin' = [wjoin EXCEPT ![w] = "ok"]
                    /\ wpc' = [wpc EXCEPT ![w] = "return"]
                    /\ rooms' = IF rid \in Range(rooms) THEN rooms
                                ELSE Append(rooms, rid)
                    /\ roomGen' = [roomGen EXCEPT ![rid] = @ + 1]
                    /\ roomAliases' = [roomAliases EXCEPT ![rid] = {}]
                    /\ roomListeners' = [roomListeners EXCEPT ![rid] = <<>>]
                    /\ wheld' = [wheld EXCEPT
                                   ![w] = [room |-> rid,
                                           gen |-> roomGen[rid] + 1]]
                    /\ UNCHANGED lastResolve
    /\ UNCHANGED <<wkind, wref, wi, wsize, overlap, loginVars, msgVars,
                   hostVars,
                   listening_rooms, aliases_fetched_for, fetches, joinIdx,
                   sendLeft>>

\* _join_or_get_room returned a room: the startup pass adds its listener to
\* the object it was given, the send service sends the text
WorkerReturn(w) ==
    /\ wpc[w] = "return"
    /\ wpc' = [wpc EXCEPT ![w] = "done"]
    /\ LET r == wheld[w].room
           how == IF wjoin[w] = "ok" THEN "joined"
                  ELSE IF wref[w] = r THEN "id" ELSE "alias"
       IN  \E sendOk \in BOOLEAN :
             /\ lastResolve' = [ref |-> wref[w], room |-> r, how |-> how,
                                sent |-> wkind[w] = "send_message" /\ sendOk]
             /\ roomListeners' =
                  IF wkind[w] = "join_rooms" /\ roomGen[r] = wheld[w].gen
                    THEN [roomListeners EXCEPT ![r] = Append(@, wref[w])]
                    ELSE roomListeners
    /\ UNCHANGED <<msgVars, hostVars>>
    /\ UNCHANGED <<wkind, wref, wi, wsize, wheld, wjoin, overlap, loginVars,
                   listening_rooms, rooms, roomGen, roomAliases,
                   aliases_fetched_for, fetches, joinIdx, sendLeft>>

(***************************************************************************)
(* The message handler (_handle_room_message).                             *)
(***************************************************************************)

\* the characters of message bodies: '!', a letter, the space, a tab
Chars == {"!", "p", " ", "\t"}

Bodies == UNION {[1..n -> Chars] : n \in 0..MaxBody}

Senders == {MxId, "@alice:hs"}
MsgTypes == {"m.text", "m.image"}

NoMessage == [room_id |-> NoRoom, msgtype |-> "none", sender |-> "none",
              body |-> <<>>]

\* the event of lines 232-238
WordEvent(command, room_id, event, pieces) ==
    [command |-> command.name, sender |-> event.sender, room |-> room_id,
     args |-> Tail(pieces), via |-> "word"]

\* the event of lines 245-251; the modelled expressions name no group
ExpressionEvent(command, room_id, event) ==
    [command |-> command.name, sender |-> event.sender, room |-> room_id,
     args |-> <<>>, via |-> "expression"]

\* lines 225-238: the events of the word command, none or one
WordEvents(room_id, event) ==
    IF event.body[1] = "!"
      THEN LET pieces == Split(event.body)
               cmd == Tail(pieces[1])
           IN  IF /\ room_id \in DOMAIN word_commands
                  /\ cmd \in DOMAIN word_commands[room_id]
                 THEN <<WordEvent(word_commands[room_id][cmd], room_id,
                                  event, pieces)>>
                 ELSE <<>>
      ELSE <<>>

\* lines 241-251: the events of the expression commands of the room from
\* list position i on
RECURSIVE ExpressionEvents(_, _, _)
ExpressionEvents(room_id, event, i) ==
    LET list == IF room_id \in DOMAIN expression_commands
                  THEN expression_commands[room_id] ELSE <<>>
    IN  IF i > Len(list) THEN <<>>
        ELSE (IF ReMatch(list[i].expression, event.body)
                THEN <<ExpressionEvent(list[i], room_id, event)>>
                ELSE <<>>)
             \o ExpressionEvents(room_id, event, i + 1)

Returned(events) == [fired |-> events, raised |-> FALSE]

\* _handle_room_message without the test of the sender (lines 220-221)
HandleRoomMessage_NoSenderTest(room_id, event) ==
    IF event.msgtype # "m.text" THEN Returned(<<>>)
    ELSE IF event.body = <<>> THEN [fired |-> <<>>, raised |-> TRUE]
    ELSE Returned(WordEvents(room_id, event)
                  \o ExpressionEvents(room_id, event, 1))

\* _handle_room_message: body[0] of an empty body raises IndexError
HandleRoomMessage(room_id, event) ==
    IF event.msgtype # "m.text" THEN Returned(<<>>)
    ELSE IF event.sender = MxId THEN Returned(<<>>)
    ELSE IF event.body = <<>> THEN [fired |-> <<>>, raised |-> TRUE]
    ELSE Returned(WordEvents(room_id, event)
                  \o ExpressionEvents(room_id, event, 1))

\* the listening rooms of the handler's specification
MsgListening == {<<"!a">>, <<"!a", "!b">>}

InitMsg ==
    /\ listening_rooms \in MsgListening
    /\ \E config \in CommandConfigs :
         /\ commands = [i \in DOMAIN config |->
                          Scoped(config[i], listening_rooms)]
         /\ word_commands =
              BuildTables(config, listening_rooms, 1, EmptyTables).word
         /\ expression_commands =
              BuildTables(config, listening_rooms, 1, EmptyTables).expression
    /\ inbox = NoMessage
    /\ handled = NoMessage
    /\ fired = <<>>
    /\ raised = FALSE

\* no command configured, no message posted or handled
IdleMsg ==
    /\ inbox = NoMessage
    /\ commands = <<>>
    /\ word_commands = <<>>
    /\ expression_commands = <<>>
    /\ handled = NoMessage
    /\ fired = <<>>
    /\ raised = FALSE

\* the listener thread delivers a room message to the handler bound to
\* room_id, which fires its events
RoomMessage ==
    /\ handled = NoMessage
    /\ \E room_id \in RoomIds, msgtype \in MsgTypes, sender \in Senders,
          body \in Bodies :
         LET event == [room_id |-> room_id, msgtype |-> msgtype,
                       sender |-> sender, body |-> body]
             res == HandleRoomMessage(room_id, event)
         IN  /\ handled' = event
             /\ fired' = res.fired
             /\ raised' = res.raised
    /\ UNCHANGED <<inbox, commands, word_commands, expression_commands>>
    /\ UNCHANGED <<loginVars, roomVars, concVars, hostVars>>

(***************************************************************************)
(* Host signals and the startup pass (_join_rooms) as a whole call; the    *)
(* delivery of a room message to the listeners of the room.                *)
(***************************************************************************)

\* lines 282-289 for one listening room, from the resolver state `at`: the
\* listener bound to the configured room_id is added to the room returned;
\* a rejected join is logged
JoinRoom(at, room_id, joinOk) ==
    LET res == JoinOrGetRoomIn(at, room_id, joinOk)
    IN  IF res.how = "raised" THEN res
        ELSE [res EXCEPT !.listeners[res.room] = Append(@, room_id)]

\* what the pass notes of one listening room
JoinEntry(room_id, res, joinOk) ==
    [ref |-> room_id, how |-> res.how, room |-> res.room, joinOk |-> joinOk]

\* JoinRoomsFrom with the try statement around the loop: the first rejected
\* join ends the pass
RECURSIVE JoinRoomsFrom_AbortOnFailure(_, _, _, _)
JoinRoomsFrom_AbortOnFailure(at, log, i, joinOks) ==
    IF i > Len(listening_rooms) THEN [state |-> at, log |-> log]
    ELSE LET room_id == listening_rooms[i]
             res == JoinRoom(at, room_id, joinOks[i])
             log2 == Append(log, JoinEntry(room_id, res, joinOks[i]))
         IN  IF res.how = "raised" THEN [state |-> res, log |-> log2]
             ELSE JoinRoomsFrom_AbortOnFailure(res, log2, i + 1, joinOks)

\* _join_rooms from listening room i on; joinOks[i] tells whether the
\* homeserver accepts a join request made for listening room i
RECURSIVE JoinRoomsFrom(_, _, _, _)
JoinRoomsFrom(at, log, i, joinOks) ==
    IF i > Len(listening_rooms) THEN [state |-> at, log |-> log]
    ELSE LET room_id == listening_rooms[i]
             res == JoinRoom(at, room_id, joinOks[i])
         IN  JoinRoomsFrom(res,
                           Append(log, JoinEntry(room_id, res, joinOks[i])),
                           i + 1, joinOks)

\* the host fires EVENT_HOMEASSISTANT_START: every handle_startup hook
\* registered by then is scheduled, once
HostStart ==
    /\ hostState = "starting"
    /\ hostState' = "started"
    /\ pendingStartup' = startHooks
    /\ UNCHANGED <<pendingStop, joinPasses, teardowns, joinLog, sendQueue,
                   sendLog, received>>
    /\ UNCHANGED <<loginVars, roomVars, concVars, msgVars>>

\* handle_startup runs _join_rooms over the whole listening-room list
HandleStartup ==
    /\ pendingStartup > 0
    /\ pendingStartup' = pendingStartup - 1
    /\ joinPasses' = joinPasses + 1
    /\ joinIdx' = Len(listening_rooms)
    /\ \E joinOks \in [DOMAIN listening_rooms -> BOOLEAN] :
         LET pass == JoinRoomsFrom(ResolverState, <<>>, 1, joinOks)
         IN  /\ Resolved(pass.state)
             /\ roomListeners' = pass.state.listeners
             /\ joinLog' = joinLog \o pass.log
             /\ lastResolve' =
                  IF pass.log = <<>> THEN lastResolve
                  ELSE LET e == pass.log[Len(pass.log)]
                       IN  [ref |-> e.ref, room |-> e.room, how |-> e.how,
                            sent |-> FALSE]
    /\ UNCHANGED <<hostState, pendingStop, teardowns, sendQueue, sendLog,
                   received>>
    /\ UNCHANGED <<listening_rooms, sendLeft>>
    /\ UNCHANGED <<loginVars, concVars, msgVars>>

\* the room messages of the specifications of the listeners
InboundBodies == {<<>>, <<"!">>, <<"p">>, <<"!", "p">>}
InboundEvents ==
    [room_id : RoomIds, msgtype : MsgTypes, sender : Senders,
     body : InboundBodies]

\* Room._put_event: the listeners of the room are called in the order they
\* were added, each with the room_id its partial bound; an exception of one
\* ends the calls
RECURSIVE CallListeners(_, _, _)
CallListeners(bound, event, i) ==
    IF i > Len(bound) THEN Returned(<<>>)
    ELSE LET res == HandleRoomMessage(bound[i], event)
             more == CallListeners(bound, event, i + 1)
         IN  IF res.raised THEN res
             ELSE [fired |-> res.fired \o more.fired, raised |-> more.raised]

\* the listener thread delivers the message posted in a joined room to the
\* listeners added to its Room object
DeliverMessage ==
    /\ inbox # NoMessage
    /\ inbox.room_id \in Range(rooms)
    /\ client # None
    /\ listenerThreads > teardowns
    /\ LET res == CallListeners(roomListeners[inbox.room_id], inbox, 1)
       IN  /\ handled' = inbox
           /\ fired' = res.fired
           /\ raised' = res.raised
    /\ inbox' = NoMessage
    /\ UNCHANGED <<commands, word_commands, expression_commands>>
    /\ UNCHANGED <<loginVars, roomVars, concVars, hostVars>>

\* the host fires EVENT_HOMEASSISTANT_STOP: every stop_client hook
\* registered by then is scheduled, once
HostStop ==
    /\ hostState # "stopped"
    /\ hostState' = "stopped"
    /\ pendingStop' = stopHooks
    /\ UNCHANGED <<pendingStartup, joinPasses, teardowns, joinLog, sendQueue,
                   sendLog, received>>
    /\ UNCHANGED <<loginVars, roomVars, concVars, msgVars>>

\* stop_client stops the listener thread
StopClient ==
    /\ pendingStop > 0
    /\ pendingStop' = pendingStop - 1
    /\ teardowns' = teardowns + 1
    /\ UNCHANGED <<hostState, pendingStartup, joinPasses, joinLog, sendQueue,
                   sendLog, received>>
    /\ UNCHANGED <<loginVars, roomVars, concVars, msgVars>>

\* what the homeserver may do with a target: accept the join and the text,
\* reject the join request, or reject the text
Rejections == {"none", "join", "send"}

\* what the send notes of one target
SendEntry(target_room, res, rejected) ==
    [ref |-> target_room, how |-> res.how, room |-> res.room,
     rejected |-> rejected,
     sent |-> res.how # "raised" /\ rejected # "send"]

\* SendMessageFrom with the try statement around the loop: the first
\* rejection ends the send
RECURSIVE SendMessageFrom_AbortOnFailure(_, _, _, _, _, _)
SendMessageFrom_AbortOnFailure(at, log, got, i, target_rooms, rejects) ==
    IF i > Len(target_rooms) THEN [state |-> at, log |-> log, received |-> got]
    ELSE LET res == JoinOrGetRoomIn(at, target_rooms[i], rejects[i] # "join")
             entry == SendEntry(target_rooms[i], res, rejects[i])
             got2 == IF entry.sent THEN [got EXCEPT ![res.room] = @ + 1]
                     ELSE got
         IN  IF ~entry.sent
               THEN [state |-> res, log |-> Append(log, entry),
                     received |-> got2]
               ELSE SendMessageFrom_AbortOnFailure(
                      res, Append(log, entry), got2, i + 1, target_rooms,
                      rejects)

\* _send_message from target i on (lines 375-385): resolve or join the
\* target and send the text; a rejected join or send is logged
RECURSIVE SendMessageFrom(_, _, _, _, _, _)
SendMessageFrom(at, log, got, i, target_rooms, rejects) ==
    IF i > Len(target_rooms) THEN [state |-> at, log |-> log, received |-> got]
    ELSE LET res == JoinOrGetRoomIn(at, target_rooms[i], rejects[i] # "join")
             entry == SendEntry(target_rooms[i], res, rejects[i])
             got2 == IF entry.sent THEN [got EXCEPT ![res.room] = @ + 1]
                     ELSE got
         IN  SendMessageFrom(res, Append(log, entry), got2, i + 1,
                             target_rooms, rejects)

\* handle_send_message: the send_message service call runs _send_message
\* over all its targets and returns
HandleSendMessage ==
    /\ sendQueue.state = "waiting"
    /\ serviceRegistered
    /\ client # None
    /\ \E rejects \in [DOMAIN sendQueue.targets -> Rejections] :
         LET send == SendMessageFrom(ResolverState, <<>>, received, 1,
                                     sendQueue.targets, rejects)
         IN  /\ Resolved(send.state)
             /\ roomListeners' = send.state.listeners
             /\ sendLog' = send.log
             /\ received' = send.received
             /\ sendQueue' =
                  [sendQueue EXCEPT
                     !.state = IF Len(send.log) = Len(sendQueue.targets)
                                 THEN "returned" ELSE "raised"]
             /\ lastResolve' =
                  IF send.log = <<>> THEN lastResolve
                  ELSE LET e == send.log[Len(send.log)]
                       IN  [ref |-> e.ref, room |-> e.room, how |-> e.how,
                            sent |-> e.sent]
    /\ UNCHANGED <<hostState, pendingStartup, pendingStop, joinPasses,
                   teardowns, joinLog>>
    /\ UNCHANGED <<listening_rooms, joinIdx, sendLeft>>
    /\ UNCHANGED <<loginVars, concVars, msgVars>>

\* target lists of a send_message service call
SendRequests == UNION {[1..n -> Refs] : n \in 0..MaxTargets}

\* listening-room lists, the service call and the posted message of the
\* specifications of the whole bot
BotListening == {<<"!a">>, <<"#a", "!b">>}
BotTargets == <<"#a", "!b">>
BotMessage == [room_id |-> "!a", msgtype |-> "m.text", sender |-> "@alice:hs",
               body |-> <<"!", "p">>]

\* the command list of the specification of the listeners
ListenCommands ==
    << WordCommand(<<"p">>, "ping", <<>>),
       ExpressionCommand(Pattern(<<"!", "p">>, FALSE), "bang", <<>>),
       ExpressionCommand(Pattern(<<>>, FALSE), "any", <<"!a">>) >>

\* the tables __init__ builds of the configured list `config`
Constructed(config) ==
    /\ commands = [i \in DOMAIN config |-> Scoped(config[i], listening_rooms)]
    /\ word_commands =
         BuildTables(config, listening_rooms, 1, EmptyTables).word
    /\ expression_commands =
         BuildTables(config, listening_rooms, 1, EmptyTables).expression

(***************************************************************************)
(* Room resolver: properties.                                              *)
(***************************************************************************)

\* C1: in every step of sequential resolve-or-join calls that issues a join
\* request (the call ends "joined" or with the request rejected), the ref
\* is neither the ID of a room joined at the call nor an alias the
\* homeserver holds for such a room, and every such room has had its
\* aliases fetched and cached by the time of the request.
C1_NoJoinForJoinedRoom ==
    [][ lastResolve'.how \in {"joined", "raised"}
        => /\ lastResolve'.ref \notin Range(rooms)
           /\ \A r \in Range(rooms) :
                /\ lastResolve'.ref \notin ServerAliases(r)
                /\ r \in aliases_fetched_for'
                /\ roomAliases'[r] = ServerAliases(r) ]_vars

\* an alias of a room joined by a join request is resolved without a join
C1_Witness ==
    /\ roomGen["!a"] = 1
    /\ lastResolve = [ref |-> "#a", room |-> "!a", how |-> "alias",
                      sent |-> TRUE]
    /\ roomListeners["!a"] = <<"#a">>

\* C2: when two resolve-or-join calls for the same ref run at the same time
\* on two workers, at most one of them joins the room.
C2_OneJoinForConcurrentCalls ==
    (overlap /\ wref["w1"] = wref["w2"])
    => ~(wjoin["w1"] = "ok" /\ wjoin["w2"] = "ok")

\* C3: over any sequence of resolve-or-join calls update_aliases is called
\* at most once for each room ID.
C3_AliasFetchAtMostOncePerRoom ==
    \A r \in RoomIds : fetches[r] <= 1

\* two different aliases of one room were resolved on a single fetch
C3_Witness ==
    /\ fetches["!a"] = 1
    /\ roomListeners["!a"] = <<"#a">>
    /\ lastResolve.ref = "#a2"
    /\ lastResolve.how = "alias"
    /\ joinIdx = Len(listening_rooms)
    /\ sendLeft = 0

(***************************************************************************)
(* Command table and message handler: properties.                          *)
(***************************************************************************)

\* the handled message is a text message of another sender
OthersText ==
    /\ handled # NoMessage
    /\ handled.msgtype = "m.text"
    /\ handled.sender # MxId

WordFired == SelectSeq(fired, LAMBDA e : e.via = "word")
ExpressionFired == SelectSeq(fired, LAMBDA e : e.via = "expression")

\* positions in the command list of the word commands with this trigger
\* that cover the room
WordEntries(room, trigger) ==
    {i \in DOMAIN commands :
        /\ IsWordCommand(commands[i])
        /\ commands[i].word = trigger
        /\ room \in Range(commands[i].rooms)}

Last(S) == CHOOSE i \in S : \A j \in S : j <= i

\* the expression commands of the list that cover the room, in list order
ExpressionEntries(room) ==
    SelectSeq(commands,
              LAMBDA c : ~IsWordCommand(c) /\ room \in Range(c.rooms))

\* " ".join(pieces)
RECURSIVE JoinSpace(_)
JoinSpace(pieces) ==
    IF Len(pieces) = 1 THEN pieces[1]
    ELSE pieces[1] \o <<" ">> \o JoinSpace(Tail(pieces))

\* the first position of a space in the string, or one past its end
FirstSpace(str) ==
    IF \E k \in DOMAIN str : str[k] = " "
      THEN CHOOSE k \in DOMAIN str :
             str[k] = " " /\ \A j \in 1..(k - 1) : str[j] # " "
      ELSE Len(str) + 1

\* C8: a message of the bot's own identity, and a message that is not
\* text, fires no command event, whatever body, room and command table.
C8_NoEventForOwnOrNonText ==
    (handled # NoMessage
     /\ (handled.sender = MxId \/ handled.msgtype # "m.text"))
    => fired = <<>>

\* the bot's own "!p" in a room where the word and an expression match it
C8_Witness ==
    /\ handled = [room_id |-> "!a", msgtype |-> "m.text", sender |-> MxId,
                  body |-> <<"!", "p">>]
    /\ WordEntries("!a", <<"p">>) # {}
    /\ ExpressionEntries("!a") # <<>>
    /\ fired = <<>>

\* C9 as stated: the body of a text message of another sender that begins
\* with '!' is split on whitespace; when the first token less its '!' is a
\* word command of the room, exactly one word event is fired, with the
\* command's name, the sender, the room and the remaining whitespace-split
\* tokens as args; otherwise no word event is fired.
C9_WordCommandOnWhitespaceSplit ==
    (OthersText /\ handled.body # <<>> /\ handled.body[1] = "!")
    => LET tokens == Split_Whitespace(handled.body)
           hits == WordEntries(handled.room_id, Tail(tokens[1]))
       IN  IF hits # {}
             THEN WordFired =
                    <<[command |-> commands[Last(hits)].name,
                       sender |-> handled.sender,
                       room |-> handled.room_id,
                       args |-> Tail(tokens), via |-> "word"]>>
             ELSE WordFired = <<>>

\* C9 as amended: the body is split at every single space character, so
\* that the tokens joined by single spaces give the body back and no token
\* holds a space (an empty token stands between two adjacent spaces and
\* after a trailing one; a tab separates nothing); the first token less its
\* '!' is the trigger, and args are the remaining tokens.
C9_WordCommandOnSpaceSplit ==
    (OthersText /\ handled.body # <<>> /\ handled.body[1] = "!")
    => LET first == SubSeq(handled.body, 1, FirstSpace(handled.body) - 1)
           hits == WordEntries(handled.room_id, Tail(first))
       IN  IF hits # {}
             THEN /\ Len(WordFired) = 1
                  /\ WordFired[1].command = commands[Last(hits)].name
                  /\ WordFired[1].sender = handled.sender
                  /\ WordFired[1].room = handled.room_id
                  /\ JoinSpace(<<first>> \o WordFired[1].args) = handled.body
                  /\ \A i \in DOMAIN WordFired[1].args :
                       " " \notin Range(WordFired[1].args[i])
             ELSE WordFired = <<>>

\* "!p p" fires the word command with the one argument "p"
C9_Witness ==
    /\ OthersText
    /\ handled.body = <<"!", "p", " ", "p">>
    /\ Len(WordFired) = 1
    /\ WordFired[1].args = << <<"p">> >>

\* C10: for a text message of another sender, every expression command of
\* the room whose pattern matches the body from its start fires exactly
\* one event, in the order of the command list, whether or not a word
\* command matched, the word event coming first.
C10_AllMatchingExpressionsFire ==
    OthersText
    => LET matching ==
             SelectSeq(ExpressionEntries(handled.room_id),
                       LAMBDA c : ReMatch(c.expression, handled.body))
       IN  /\ Len(ExpressionFired) = Len(matching)
           /\ \A i \in DOMAIN matching :
                /\ ExpressionFired[i].command = matching[i].name
                /\ ExpressionFired[i].sender = handled.sender
                /\ ExpressionFired[i].room = handled.room_id
           /\ fired = WordFired \o ExpressionFired

\* the triggers of the configured word commands
Triggers == {commands[i].word : i \in {j \in DOMAIN commands :
                                         IsWordCommand(commands[j])}}

\* C12: for every room and trigger, when word commands of the list share
\* the (room, trigger) pair, the word index holds for the pair the command
\* that comes last in the list among them; a command stays in the index in
\* the rooms where no later command has its trigger; a pair no command of
\* the list covers is not in the index.
C12_LastWordCommandWins ==
    \A room \in Refs, trigger \in Triggers :
        LET hits == WordEntries(room, trigger)
            held == /\ room \in DOMAIN word_commands
                    /\ trigger \in DOMAIN word_commands[room]
        IN  IF hits # {}
              THEN held /\ word_commands[room][trigger] = commands[Last(hits)]
              ELSE ~held

\* "ping" for every listening room, then "pong" with the same trigger for
\* room "!a" only: "!p" posted in "!b" still fires "ping"
C12_Witness ==
    /\ Len(commands) = 2
    /\ commands[1].name = "ping"
    /\ commands[2].name = "pong"
    /\ listening_rooms = <<"!a", "!b">>
    /\ word_commands["!a"][<<"p">>].name = "pong"
    /\ word_commands["!b"][<<"p">>].name = "ping"
    /\ handled.room_id = "!b"
    /\ handled.body = <<"!", "p">>
    /\ Len(WordFired) = 1
    /\ WordFired[1].command = "ping"

\* C20: the handler returns for every text message of another sender,
\* whatever the body (the empty body and the body "!" included), and has
\* then tested every expression command of the room against the body.
C20_HandlerNeverRaises ==
    OthersText
    => /\ ~raised
       /\ Len(ExpressionFired) =
            Len(SelectSeq(ExpressionEntries(handled.room_id),
                          LAMBDA c : ReMatch(c.expression, handled.body)))

(***************************************************************************)
(* Startup pass and message delivery: properties.                          *)
(***************************************************************************)

\* the events an expression command of this name fired for the message
FiredBy(name) ==
    {k \in DOMAIN fired :
        fired[k].via = "expression" /\ fired[k].command = name}

\* the entry of the configuration a command of the list was read from (the
\* names of the configured commands differ)
Configured(command) == CHOOSE c \in CommandPool : c.name = command.name

\* the rooms command i of the list is to be indexed under
ScopeOf(i) ==
    IF Configured(commands[i]).rooms = <<>> THEN listening_rooms
    ELSE Configured(commands[i]).rooms

\* the index holds command i under the room: an expression command is in
\* the room's list; a word command is the room's entry for its trigger,
\* unless a later command of the list with that trigger and room is
IndexedUnder(i, room) ==
    IF IsWordCommand(commands[i])
      THEN /\ room \in DOMAIN word_commands
           /\ commands[i].word \in DOMAIN word_commands[room]
           /\ \E j \in i..Len(commands) :
                /\ j \in WordEntries(room, commands[i].word)
                /\ word_commands[room][commands[i].word] = commands[j]
      ELSE /\ room \in DOMAIN expression_commands
           /\ commands[i] \in Range(expression_commands[room])

\* the index holds command i itself under the room
HeldUnder(i, room) ==
    IF IsWordCommand(commands[i])
      THEN /\ room \in DOMAIN word_commands
           /\ commands[i].word \in DOMAIN word_commands[room]
           /\ word_commands[room][commands[i].word] = commands[i]
      ELSE /\ room \in DOMAIN expression_commands
           /\ commands[i] \in Range(expression_commands[room])

\* both indices hold every command under the rooms of its scope and under
\* no other room
TablesByScope ==
    \A i \in DOMAIN commands :
        /\ commands[i].rooms = ScopeOf(i)
        /\ \A room \in Refs :
             IF room \in Range(ScopeOf(i)) THEN IndexedUnder(i, room)
             ELSE ~HeldUnder(i, room)

\* C13: once the bot is constructed, every command configured without
\* rooms is indexed under exactly the listening rooms, every command with
\* rooms under exactly its own, and no step after the construction (login,
\* startup pass, message delivery, send) changes the word index, the
\* expression index or the listening-room list.
C13_TablesFixedAtConstruction ==
    [][ pc' # "boot"
        => /\ TablesByScope'
           /\ pc # "boot"
              => /\ word_commands' = word_commands
                 /\ expression_commands' = expression_commands
                 /\ listening_rooms' = listening_rooms ]_vars

\* "ping" without rooms and "any" for room "!a", listening rooms "#a" and
\* "!b": after login, startup pass, a delivered message and a send
C13_Witness ==
    /\ pc = "running"
    /\ joinPasses = 1
    /\ handled = BotMessage
    /\ sendQueue.state = "returned"
    /\ listening_rooms = <<"#a", "!b">>
    /\ Len(commands) = 2
    /\ commands[1].name = "ping"
    /\ commands[2].name = "any"
    /\ DOMAIN word_commands = {"#a", "!b"}
    /\ DOMAIN expression_commands = {"!a"}

\* C11: a message delivered to a joined room after the startup pass fires
\* at most one word-command event, and each expression command of the
\* configuration fires at most one event, whatever the listening-room list.
C11_AtMostOneEventPerCommand ==
    (handled # NoMessage /\ joinPasses > 0)
    => /\ Len(WordFired) <= 1
       /\ \A i \in DOMAIN commands :
            ~IsWordCommand(commands[i])
            => Cardinality(FiredBy(commands[i].name)) <= 1

\* the room of listening room i was joined when the pass reached it
JoinedBefore(i) ==
    LET r == ServerRoom(joinLog[i].ref)
    IN  /\ r \in Range(rooms)
        /\ \A j \in i..Len(joinLog) :
             ~(joinLog[j].how = "joined" /\ joinLog[j].room = r)

\* the refs of the listening rooms of the pass that ended with room r, in
\* list order
BoundTo(r) ==
    LET ended == SelectSeq(joinLog,
                           LAMBDA e : e.how # "raised" /\ e.room = r)
    IN  [k \in DOMAIN ended |-> ended[k].ref]

\* C14: the startup pass goes through the whole listening-room list for
\* every pattern of rejected joins: a listening room fails exactly when its
\* room is not joined yet and the homeserver rejects the join; every other
\* listening room ends with its room and a listener added to that room,
\* whatever failed before it; a failed one adds no listener.
C14_ListenerForEveryResolvedRoom ==
    joinPasses > 0
    => /\ Len(joinLog) = Len(listening_rooms)
       /\ \A i \in DOMAIN joinLog :
            /\ joinLog[i].ref = listening_rooms[i]
            /\ joinLog[i].how = "raised"
               <=> (~joinLog[i].joinOk /\ ~JoinedBefore(i))
            /\ joinLog[i].how # "raised"
               => joinLog[i].room = ServerRoom(joinLog[i].ref)
       /\ \A r \in RoomIds : roomListeners[r] = BoundTo(r)

\* the join of the first listening room is rejected, the second is joined
\* and has its listener
C14_Witness ==
    /\ joinPasses = 1
    /\ Len(joinLog) = 2
    /\ joinLog[1].how = "raised"
    /\ joinLog[2].how = "joined"
    /\ roomListeners[joinLog[2].room] = <<listening_rooms[2]>>

\* C16: every listener the startup pass adds to a room is bound to the
\* canonical ID of that room, whether the listening room was given as an ID
\* or as an alias, so that the commands of a delivered message are looked
\* up under the canonical ID and every event fired for it carries the
\* canonical ID of the room the message was posted in.
C16_ListenerBoundToCanonicalId ==
    joinPasses > 0
    => /\ \A r \in RoomIds :
            \A k \in DOMAIN roomListeners[r] : roomListeners[r][k] = r
       /\ handled # NoMessage
          => /\ \A k \in DOMAIN fired : fired[k].room = handled.room_id
             /\ ~raised
                => \A room_id \in Range(roomListeners[handled.room_id]) :
                     HandleRoomMessage(room_id, handled) =
                       HandleRoomMessage(handled.room_id, handled)

\* C18: _join_rooms runs at most once per bot, and only when the bot has
\* logged in and the host has fired its start event; no room has a message
\* listener before that; stop_listener_thread is called at most once, and
\* only when the host has fired its stop event.
C18_JoinPassOnStartSignalOnce ==
    /\ joinPasses <= 1
    /\ teardowns <= 1
    /\ pendingStartup + joinPasses <= 1
    /\ (joinPasses > 0 \/ \E r \in RoomIds : roomListeners[r] # <<>>)
       => /\ joinPasses = 1
          /\ hostState # "starting"
          /\ client # None
          /\ tokenResult = "ok" \/ passwordResult = "ok"
    /\ (teardowns > 0 \/ pendingStop > 0) => hostState = "stopped"

\* the pass ran on the start event and added a listener, the listener
\* thread was stopped on the stop event
C18_Witness ==
    /\ joinPasses = 1
    /\ roomListeners["!a"] # <<>>
    /\ teardowns = 1
    /\ hostState = "stopped"
    /\ pc = "running"

(***************************************************************************)
(* The send service: properties.                                           *)
(***************************************************************************)

\* the room of target i was joined when the send reached it
TargetJoinedBefore(i) ==
    LET r == ServerRoom(sendLog[i].ref)
    IN  /\ r \in Range(rooms)
        /\ \A j \in i..Len(sendLog) :
             ~(sendLog[j].how = "joined" /\ sendLog[j].room = r)

\* the targets of the call whose text the homeserver accepted for room r
SentTo(r) == {i \in DOMAIN sendLog : sendLog[i].sent /\ sendLog[i].room = r}

\* C15: a send_message call returns to its caller for every target list and
\* every pattern of rejected joins and rejected texts; the targets are
\* handled in list order, all of them; a target gets the text when its
\* room is joined already or its join is accepted, and its text is
\* accepted, whatever was rejected before it; each room received one text
\* for each such target and no other.
C15_EveryGoodTargetGetsTheText ==
    sendQueue.state \notin {"none", "waiting"}
    => /\ sendQueue.state = "returned"
       /\ Len(sendLog) = Len(sendQueue.targets)
       /\ \A i \in DOMAIN sendLog :
            /\ sendLog[i].ref = sendQueue.targets[i]
            /\ sendLog[i].sent
               <=> \/ sendLog[i].rejected = "none"
                   \/ sendLog[i].rejected = "join" /\ TargetJoinedBefore(i)
            /\ sendLog[i].sent
               => sendLog[i].room = ServerRoom(sendLog[i].ref)
       /\ \A r \in RoomIds : received[r] = Cardinality(SentTo(r))

\* the join of the first target is rejected, the second target is joined
\* and gets the text
C15_Witness ==
    /\ sendQueue.state = "returned"
    /\ Len(sendLog) = 2
    /\ sendLog[1].how = "raised"
    /\ sendLog[2].how = "joined"
    /\ sendLog[2].sent
    /\ received[sendLog[2].room] = 1

(***************************************************************************)
(* The specifications.                                                     *)
(***************************************************************************)

Init == InitLogin /\ IdleRooms /\ IdleWorkers /\ IdleMsg /\ IdleHost

Next ==
    \/ Construct
    \/ InitClient
    \/ LoginByToken
    \/ LoginByPassword
    \/ StoreAuthToken
    \/ StartListening
    \/ SetupFinish
    \/ Restart

Spec == Init /\ [][Next]_vars

InitResolver ==
    InitRooms /\ LoggedIn /\ IdleWorkers /\ IdleMsg /\ IdleHost

NextRooms ==
    \/ JoinRooms
    \/ SendMessage

SpecRooms == InitResolver /\ [][NextRooms]_vars

InitConc ==
    /\ LoggedIn
    /\ IdleWorkers
    /\ IdleMsg
    /\ IdleHost
    /\ listening_rooms \in [1..1 -> Refs]
    /\ rooms \in InitialRooms
    /\ roomGen = [r \in RoomIds |-> 0]
    /\ roomAliases = [r \in RoomIds |-> {}]
    /\ roomListeners = [r \in RoomIds |-> <<>>]
    /\ aliases_fetched_for = {}
    /\ fetches = [r \in RoomIds |-> 0]
    /\ lastResolve = NoResolve
    /\ joinIdx = 0
    /\ sendLeft = 0

NextConc ==
    \E w \in Workers :
        \/ WorkerCall(w)
        \/ WorkerScan(w)
        \/ WorkerFetch(w)
        \/ WorkerJoin(w)
        \/ WorkerReturn(w)

SpecConc == InitConc /\ [][NextConc]_vars

InitHandler ==
    /\ LoggedIn
    /\ IdleWorkers
    /\ InitMsg
    /\ IdleHost
    /\ rooms = <<"!a", "!b">>
    /\ roomGen = [r \in RoomIds |-> 0]
    /\ roomAliases = [r \in RoomIds |-> {}]
    /\ roomListeners = [r \in RoomIds |-> <<>>]
    /\ aliases_fetched_for = {}
    /\ fetches = [r \in RoomIds |-> 0]
    /\ lastResolve = NoResolve
    /\ joinIdx = 0
    /\ sendLeft = 0

NextMsg == RoomMessage

SpecMsg == InitHandler /\ [][NextMsg]_vars

\* the bot logged in, its hooks registered, the host not yet started
InitListen ==
    /\ LoggedIn
    /\ IdleWorkers
    /\ IdleHost
    /\ listening_rooms \in ListeningConfigs
    /\ \E joined \in InitialRooms : FreshResolver(joined)
    /\ Constructed(ListenCommands)
    /\ inbox \in InboundEvents
    /\ handled = NoMessage
    /\ fired = <<>>
    /\ raised = FALSE

NextListen ==
    \/ HostStart
    \/ HandleStartup
    \/ DeliverMessage

SpecListen == InitListen /\ [][NextListen]_vars

\* the bot logged in, a send_message service call made
InitSend ==
    /\ LoggedIn
    /\ IdleWorkers
    /\ IdleMsg
    /\ \E target_rooms \in SendRequests : HostBefore(Waiting(target_rooms))
    /\ listening_rooms = <<>>
    /\ \E joined \in InitialRooms : FreshResolver(joined)

NextSend == HandleSendMessage

SpecSend == InitSend /\ [][NextSend]_vars

\* the host starts: the configuration is read, no bot is built yet
InitBot ==
    /\ InitLogin
    /\ disk \in {EmptyMap, [i \in {MxId} |-> 1]}
    /\ IdleWorkers
    /\ HostBefore(Waiting(BotTargets))
    /\ listening_rooms \in BotListening
    /\ \E joined \in {<<>>, <<"!a">>} : FreshResolver(joined)
    /\ commands = ListenCommands
    /\ word_commands = <<>>
    /\ expression_commands = <<>>
    /\ inbox = BotMessage
    /\ handled = NoMessage
    /\ fired = <<>>
    /\ raised = FALSE

NextBot ==
    \/ Construct
    \/ InitClient
    \/ LoginByToken
    \/ LoginByPassword
    \/ StoreAuthToken
    \/ StartListening
    \/ SetupFinish
    \/ HostStart
    \/ HandleStartup
    \/ HostStop
    \/ StopClient
    \/ DeliverMessage
    \/ HandleSendMessage

SpecBot == InitBot /\ [][NextBot]_vars

\* the host starts with any command list of the configuration and no
\* stored token
InitTables ==
    /\ InitLogin
    /\ disk = EmptyMap
    /\ IdleWorkers
    /\ HostBefore(Waiting(BotTargets))
    /\ listening_rooms \in BotListening
    /\ FreshResolver(<<"!a">>)
    /\ commands \in CommandConfigs
    /\ word_commands = <<>>
    /\ expression_commands = <<>>
    /\ inbox = BotMessage
    /\ handled = NoMessage
    /\ fired = <<>>
    /\ raised = FALSE

NextTables ==
    \/ Construct
    \/ InitClient
    \/ LoginByPassword
    \/ StoreAuthToken
    \/ StartListening
    \/ SetupFinish
    \/ HostStart
    \/ HandleStartup
    \/ DeliverMessage
    \/ HandleSendMessage

SpecTables == InitTables /\ [][NextTables]_vars

====
